---- MODULE Spec2Model ----
(***************************************************************************)
(* PhysicalNetwork (server/PhysicalNetwork.cpp): the in-memory view of one  *)
(* physical network (permission, default flag, interfaces, UID-range map)   *)
(* and the collaborator calls every operation makes to keep the routing     *)
(* table, the socket-diagnostics facility and the delegate in step with it. *)
(*                                                                          *)
(* Every public method is one action.  The collaborators are external: each *)
(* call either succeeds (and has its effect on the collaborator's state) or *)
(* fails with an error code (and has none).  Which call fails is chosen by  *)
(* an oracle drawn with \E in the action.  The calls of the last operation  *)
(* are recorded, in order, in `calls`.                                      *)
(***************************************************************************)
EXTENDS Integers, Sequences, FiniteSets, TLC

\* Number of operations in one run.
MaxOps == 4

\* The interface names the driver uses, in std::set<std::string> order.
IfaceOrder == <<"eth0", "wlan0">>

IfaceNames == {IfaceOrder[k] : k \in DOMAIN IfaceOrder}

PERMISSION_NONE == "NONE"

PERMISSION_NETWORK == "NETWORK"

PERMISSION_SYSTEM == "SYSTEM"

Permissions == {PERMISSION_NONE, PERMISSION_NETWORK, PERMISSION_SYSTEM}

\* Marks a call argument the call does not take, and an interface the
\* routing table does not hold.
NoPermission == "-"

SUB_PRIORITY_HIGHEST == 0

SUB_PRIORITY_LOWEST == 998

SUB_PRIORITY_NO_DEFAULT == 999

EINVAL == 22

EBADFD == 77

EEXIST == 17

\* Sub-priorities the driver passes: below the range, its two ends, the
\* sentinel, and above the sentinel.
SubPriorityInputs == {-1, SUB_PRIORITY_HIGHEST, SUB_PRIORITY_LOWEST,
                      SUB_PRIORITY_NO_DEFAULT, 1000}

\* UID ranges the driver passes (a UidRanges is a set of inclusive ranges).
AppUids == {<<1000, 1999>>}

OtherUids == {<<2000, 2999>>}

UidRangesInputs == {AppUids, OtherUids}

NoRanges == {}

VARIABLES
    mPermission,    \* PhysicalNetwork::mPermission
    mIsDefault,     \* PhysicalNetwork::mIsDefault
    mInterfaces,    \* Network::mInterfaces
    mUidRangeMap,   \* Network::mUidRangeMap: sub-priority -> UidRanges
    rcPermission,   \* routing table: interface -> effective permission
    rcDefault,      \* routing table: <<interface, permission>> in the default network
    fallthrough,    \* delegate: <<interface, permission>> registered for fallthrough
    rcUsers,        \* routing table: interface -> set of <<sub-priority, range>> rules
    calls,          \* collaborator calls of the last operation, in order
    ret,            \* return value of the last operation
    op,             \* the last operation and its arguments
    pre,            \* the fields and the collaborators before the last operation
    failedOps,      \* the DefaultBreakers that have returned a failure
    allSucceeded,   \* no operation has returned a failure so far
    lastSet,        \* argument of the last successful setPermission, if any
    nOps            \* operations run so far

vars == <<mPermission, mIsDefault, mInterfaces, mUidRangeMap, rcPermission,
          rcDefault, fallthrough, rcUsers, calls, ret, op, pre, failedOps,
          allSucceeded, lastSet, nOps>>

----------------------------------------------------------------------------
\* Collaborators

\* The collaborators' state and the calls made so far in this operation.
Env == [rcPermission |-> rcPermission, rcDefault |-> rcDefault,
        fallthrough |-> fallthrough, rcUsers |-> rcUsers, calls |-> <<>>]

Call(fn, interface, permission, newPermission, subPriority, uidRanges, res) ==
    [fn |-> fn, iface |-> interface, perm |-> permission, perm2 |-> newPermission,
     sub |-> subPriority, ranges |-> uidRanges, res |-> res]

\* Calls whose failure PhysicalNetwork ignores.
BestEffortCalls == {"addRoute", "removeRoute", "SockDiag::open",
                    "SockDiag::destroySocketsLackingPermission"}

RECURSIVE NumChecked(_)
NumChecked(cs) ==
    IF cs = <<>> THEN 0
    ELSE NumChecked(Tail(cs)) + (IF Head(cs).fn \in BestEffortCalls THEN 0 ELSE 1)

\* Result of the next routing-table or delegate call whose result the caller
\* reads: the oracle names the one call (if any) that fails.  The k-th checked
\* call of an operation fails with code -k, so that the code tells which call
\* it came from.
Outcome(env, o) ==
    IF NumChecked(env.calls) + 1 = o.failAt THEN -o.failAt ELSE 0

Done(env, c) == [env |-> [env EXCEPT !.calls = Append(@, c)], ret |-> c.res]

addInterfaceToDefaultNetwork(env, o, interface, permission) ==
    LET res == Outcome(env, o)
        c == Call("addInterfaceToDefaultNetwork", interface, permission,
                  NoPermission, 0, NoRanges, res)
    IN  IF res # 0 THEN Done(env, c)
        ELSE Done([env EXCEPT !.rcDefault = @ \cup {<<interface, permission>>}], c)

removeInterfaceFromDefaultNetwork(env, o, interface, permission) ==
    LET res == Outcome(env, o)
        c == Call("removeInterfaceFromDefaultNetwork", interface, permission,
                  NoPermission, 0, NoRanges, res)
    IN  IF res # 0 THEN Done(env, c)
        ELSE Done([env EXCEPT !.rcDefault = @ \ {<<interface, permission>>}], c)

addFallthrough(env, o, interface, permission) ==
    LET res == Outcome(env, o)
        c == Call("addFallthrough", interface, permission, NoPermission, 0,
                  NoRanges, res)
    IN  IF res # 0 THEN Done(env, c)
        ELSE Done([env EXCEPT !.fallthrough = @ \cup {<<interface, permission>>}], c)

removeFallthrough(env, o, interface, permission) ==
    LET res == Outcome(env, o)
        c == Call("removeFallthrough", interface, permission, NoPermission, 0,
                  NoRanges, res)
    IN  IF res # 0 THEN Done(env, c)
        ELSE Done([env EXCEPT !.fallthrough = @ \ {<<interface, permission>>}], c)

modifyPhysicalNetworkPermission(env, o, interface, oldPermission, newPermission) ==
    LET res == Outcome(env, o)
        c == Call("modifyPhysicalNetworkPermission", interface, oldPermission,
                  newPermission, 0, NoRanges, res)
    IN  IF res # 0 THEN Done(env, c)
        ELSE Done([env EXCEPT !.rcPermission[interface] = newPermission], c)

\* The rules a UID-range map stands for: one <<sub-priority, range>> per range.
\* A call that takes a whole map records its rules.
Rules(uidRangeMap) ==
    UNION {{<<s, r>> : r \in uidRangeMap[s]} : s \in DOMAIN uidRangeMap}

addInterfaceToPhysicalNetwork(env, o, interface, permission, uidRangeMap) ==
    LET res == Outcome(env, o)
        c == Call("addInterfaceToPhysicalNetwork", interface, permission,
                  NoPermission, 0, Rules(uidRangeMap), res)
    IN  IF res # 0 THEN Done(env, c)
        ELSE Done([env EXCEPT !.rcPermission[interface] = permission,
                              !.rcUsers[interface] = Rules(uidRangeMap)], c)

removeInterfaceFromPhysicalNetwork(env, o, interface, permission, uidRangeMap) ==
    LET res == Outcome(env, o)
        c == Call("removeInterfaceFromPhysicalNetwork", interface, permission,
                  NoPermission, 0, Rules(uidRangeMap), res)
    IN  IF res # 0 THEN Done(env, c)
        ELSE Done([env EXCEPT !.rcPermission[interface] = NoPermission,
                              !.rcUsers[interface] = @ \ Rules(uidRangeMap)], c)

\* The routing table rejects a rule it already holds for the interface.
addUsersToPhysicalNetwork(env, o, interface, subPriority, uidRanges) ==
    LET rules == {<<subPriority, r>> : r \in uidRanges}
        res == IF Outcome(env, o) # 0 THEN Outcome(env, o)
               ELSE IF rules \cap env.rcUsers[interface] # {} THEN -EEXIST
               ELSE 0
        c == Call("addUsersToPhysicalNetwork", interface, NoPermission,
                  NoPermission, subPriority, uidRanges, res)
    IN  IF res # 0 THEN Done(env, c)
        ELSE Done([env EXCEPT !.rcUsers[interface] = @ \cup rules], c)

removeUsersFromPhysicalNetwork(env, o, interface, subPriority, uidRanges) ==
    LET res == Outcome(env, o)
        c == Call("removeUsersFromPhysicalNetwork", interface, NoPermission,
                  NoPermission, subPriority, uidRanges, res)
    IN  IF res # 0 THEN Done(env, c)
        ELSE Done([env EXCEPT !.rcUsers[interface] =
                                  @ \ {<<subPriority, r>> : r \in uidRanges}], c)

\* RouteController::addRoute / removeRoute of a "throw" route: no effect the
\* model keeps.  The oracle says whether the throw routes of this operation
\* can be installed: when they cannot, adding and removing them both fail.
routeCall(env, o, fn, interface, dst) ==
    Done(env, Call(fn, interface, dst, NoPermission, 0, NoRanges,
                   IF o.routeFail THEN -1 ELSE 0))

\* SockDiag::open then SockDiag::destroySocketsLackingPermission: the oracle
\* gives the outcome of each pass ("ok", "open" fails, "destroy" fails).
NumOpens(cs) == Cardinality({k \in DOMAIN cs : cs[k].fn = "SockDiag::open"})

SockDiagOutcome(env, o) ==
    LET k == NumOpens(env.calls) + 1
    IN  IF k \in DOMAIN o.sd THEN o.sd[k] ELSE "ok"

SockDiagOutcomes == {"ok", "open", "destroy"}

\* What can go wrong in one operation that makes at most n checked calls.
Oracles(n, sdOutcomes, routeOutcomes) ==
    [failAt : 0..n, sd : [1..2 -> sdOutcomes], routeFail : routeOutcomes]

----------------------------------------------------------------------------
\* Network (the base class): membership and the UID-range map

hasInterface(interface) == interface \in mInterfaces

\* mInterfaces in iteration order.
SortedInterfaces == SelectSeq(IfaceOrder, LAMBDA i : i \in mInterfaces)

EmptyUidRangeMap == [s \in {} |-> NoRanges]

canAddUidRanges(uidRanges) ==
    \A s \in DOMAIN mUidRangeMap : mUidRangeMap[s] \cap uidRanges = {}

addToUidRangeMap(uidRanges, subPriority) ==
    IF subPriority \in DOMAIN mUidRangeMap
    THEN [mUidRangeMap EXCEPT ![subPriority] = @ \cup uidRanges]
    ELSE [s \in DOMAIN mUidRangeMap \cup {subPriority} |->
            IF s = subPriority THEN uidRanges ELSE mUidRangeMap[s]]

removeFromUidRangeMap(uidRanges, subPriority) ==
    IF subPriority \in DOMAIN mUidRangeMap
    THEN IF mUidRangeMap[subPriority] \ uidRanges = {}
         THEN [s \in DOMAIN mUidRangeMap \ {subPriority} |-> mUidRangeMap[s]]
         ELSE [mUidRangeMap EXCEPT ![subPriority] = @ \ uidRanges]
    ELSE mUidRangeMap

----------------------------------------------------------------------------
\* PhysicalNetwork.cpp

\* A return from a method: the collaborators as the calls left them, the
\* return value, and the fields (unchanged unless the caller says otherwise).
Return(env, r) ==
    [env |-> env, ret |-> r, mPermission |-> mPermission, mIsDefault |-> mIsDefault,
     mInterfaces |-> mInterfaces, mUidRangeMap |-> mUidRangeMap]

\* Fault: addToDefault that never reaches the delegate.
addToDefault_NoFallthrough(env, o, interface, permission) ==
    LET r1 == addInterfaceToDefaultNetwork(env, o, interface, permission)
    IN  IF r1.ret # 0 THEN r1
        ELSE [env |-> r1.env, ret |-> 0]

addToDefault(env, o, interface, permission) ==
    LET r1 == addInterfaceToDefaultNetwork(env, o, interface, permission)
    IN  IF r1.ret # 0 THEN r1
        ELSE LET r2 == addFallthrough(r1.env, o, interface, permission)
             IN  IF r2.ret # 0 THEN r2
                 ELSE [env |-> r2.env, ret |-> 0]

\* Fault: removeFromDefault that never reaches the delegate.
removeFromDefault_NoFallthrough(env, o, interface, permission) ==
    LET r1 == removeInterfaceFromDefaultNetwork(env, o, interface, permission)
    IN  IF r1.ret # 0 THEN r1
        ELSE [env |-> r1.env, ret |-> 0]

removeFromDefault(env, o, interface, permission) ==
    LET r1 == removeInterfaceFromDefaultNetwork(env, o, interface, permission)
    IN  IF r1.ret # 0 THEN r1
        ELSE LET r2 == removeFallthrough(r1.env, o, interface, permission)
             IN  IF r2.ret # 0 THEN r2
                 ELSE [env |-> r2.env, ret |-> 0]

\* Fault: destroySocketsLackingPermission that opens SockDiag only for
\* PERMISSION_NETWORK.
destroySocketsLackingPermission_NetworkOnly(env, o, permission) ==
    IF permission # PERMISSION_NETWORK THEN [env |-> env, ret |-> 0]
    ELSE LET opened == Done(env, Call("SockDiag::open", "", permission, NoPermission,
                                      0, NoRanges, 0))
         IN  Done(opened.env, Call("SockDiag::destroySocketsLackingPermission", "",
                                   permission, NoPermission, 0, NoRanges, 0))

destroySocketsLackingPermission(env, o, permission) ==
    IF permission = PERMISSION_NONE THEN [env |-> env, ret |-> 0]
    ELSE LET out == SockDiagOutcome(env, o)
             opened == Done(env, Call("SockDiag::open", "", permission, NoPermission,
                                      0, NoRanges, IF out = "open" THEN -1 ELSE 0))
         IN  IF out = "open" THEN [env |-> opened.env, ret |-> -EBADFD]
             ELSE LET d == Done(opened.env,
                                Call("SockDiag::destroySocketsLackingPermission", "",
                                     permission, NoPermission, 0, NoRanges,
                                     IF out = "destroy" THEN -EBADFD - 1 ELSE 0))
                  IN  IF d.ret # 0 THEN d
                      ELSE [env |-> d.env, ret |-> 0]

RouteDestinations == <<"0.0.0.0/0", "::/0">>

RECURSIVE invalidateRouteCacheFrom(_, _, _, _)
invalidateRouteCacheFrom(env, o, interface, k) ==
    IF k > Len(RouteDestinations) THEN env
    ELSE LET a == routeCall(env, o, "addRoute", interface, RouteDestinations[k])
             r == routeCall(a.env, o, "removeRoute", interface, RouteDestinations[k])
         IN  invalidateRouteCacheFrom(r.env, o, interface, k + 1)

\* Fault: invalidateRouteCache that leaves out the IPv6 default prefix.
invalidateRouteCache_V4Only(env, o, interface) ==
    LET a == routeCall(env, o, "addRoute", interface, RouteDestinations[1])
        r == routeCall(a.env, o, "removeRoute", interface, RouteDestinations[1])
    IN  r.env

invalidateRouteCache(env, o, interface) == invalidateRouteCacheFrom(env, o, interface, 1)

\* Fault: the first loop of setPermission leaving after its first interface.
setPermissionModifyLoop_FirstOnly(env, o, ifaces, permission) ==
    IF ifaces = <<>> THEN [env |-> env, ret |-> 0]
    ELSE LET m == modifyPhysicalNetworkPermission(env, o, Head(ifaces), mPermission,
                                                  permission)
         IN  IF m.ret # 0 THEN m
             ELSE [env |-> invalidateRouteCache(m.env, o, Head(ifaces)), ret |-> 0]

\* The first loop of setPermission, over ifaces (a sequence).
RECURSIVE setPermissionModifyLoop(_, _, _, _)
setPermissionModifyLoop(env, o, ifaces, permission) ==
    IF ifaces = <<>> THEN [env |-> env, ret |-> 0]
    ELSE LET m == modifyPhysicalNetworkPermission(env, o, Head(ifaces), mPermission,
                                                  permission)
         IN  IF m.ret # 0 THEN m
             ELSE setPermissionModifyLoop(invalidateRouteCache(m.env, o, Head(ifaces)),
                                          o, Tail(ifaces), permission)

\* Fault: the second loop of setPermission removing the old registration
\* before it adds the new one.
RECURSIVE setPermissionDefaultLoop_RemoveFirst(_, _, _, _)
setPermissionDefaultLoop_RemoveFirst(env, o, ifaces, permission) ==
    IF ifaces = <<>> THEN [env |-> env, ret |-> 0]
    ELSE LET r == removeFromDefault(env, o, Head(ifaces), mPermission)
         IN  IF r.ret # 0 THEN r
             ELSE LET a == addToDefault(r.env, o, Head(ifaces), permission)
                  IN  IF a.ret # 0 THEN a
                      ELSE setPermissionDefaultLoop_RemoveFirst(a.env, o, Tail(ifaces),
                                                                permission)

\* The second loop of setPermission (mIsDefault), over ifaces.
RECURSIVE setPermissionDefaultLoop(_, _, _, _)
setPermissionDefaultLoop(env, o, ifaces, permission) ==
    IF ifaces = <<>> THEN [env |-> env, ret |-> 0]
    ELSE LET a == addToDefault(env, o, Head(ifaces), permission)
         IN  IF a.ret # 0 THEN a
             ELSE LET r == removeFromDefault(a.env, o, Head(ifaces), mPermission)
                  IN  IF r.ret # 0 THEN r
                      ELSE setPermissionDefaultLoop(r.env, o, Tail(ifaces), permission)

\* Fault: setPermission without the second destroySocketsLackingPermission.
setPermission_OnePass(o, permission) ==
    IF permission = mPermission THEN Return(Env, 0)
    ELSE IF mInterfaces = {} THEN [Return(Env, 0) EXCEPT !.mPermission = permission]
    ELSE
      LET d1 == destroySocketsLackingPermission(Env, o, permission)
          l1 == setPermissionModifyLoop(d1.env, o, SortedInterfaces, permission)
      IN  IF l1.ret # 0 THEN Return(l1.env, l1.ret)
          ELSE LET l2 == IF mIsDefault
                         THEN setPermissionDefaultLoop(l1.env, o, SortedInterfaces,
                                                       permission)
                         ELSE [env |-> l1.env, ret |-> 0]
               IN  IF l2.ret # 0 THEN Return(l2.env, l2.ret)
                   ELSE [Return(l2.env, 0) EXCEPT !.mPermission = permission]

setPermission(o, permission) ==
    IF permission = mPermission THEN Return(Env, 0)
    ELSE IF mInterfaces = {} THEN [Return(Env, 0) EXCEPT !.mPermission = permission]
    ELSE
      LET d1 == destroySocketsLackingPermission(Env, o, permission)
          l1 == setPermissionModifyLoop(d1.env, o, SortedInterfaces, permission)
      IN  IF l1.ret # 0 THEN Return(l1.env, l1.ret)
          ELSE LET l2 == IF mIsDefault
                         THEN setPermissionDefaultLoop(l1.env, o, SortedInterfaces,
                                                       permission)
                         ELSE [env |-> l1.env, ret |-> 0]
               IN  IF l2.ret # 0 THEN Return(l2.env, l2.ret)
                   ELSE LET d2 == destroySocketsLackingPermission(l2.env, o, permission)
                        IN  [Return(d2.env, 0) EXCEPT !.mPermission = permission]

\* Fault: the loop of addAsDefault registering at PERMISSION_NONE.
RECURSIVE addAsDefaultLoop_NonePermission(_, _, _)
addAsDefaultLoop_NonePermission(env, o, ifaces) ==
    IF ifaces = <<>> THEN [env |-> env, ret |-> 0]
    ELSE LET a == addToDefault(env, o, Head(ifaces), PERMISSION_NONE)
         IN  IF a.ret # 0 THEN a
             ELSE addAsDefaultLoop_NonePermission(a.env, o, Tail(ifaces))

RECURSIVE addAsDefaultLoop(_, _, _)
addAsDefaultLoop(env, o, ifaces) ==
    IF ifaces = <<>> THEN [env |-> env, ret |-> 0]
    ELSE LET a == addToDefault(env, o, Head(ifaces), mPermission)
         IN  IF a.ret # 0 THEN a
             ELSE addAsDefaultLoop(a.env, o, Tail(ifaces))

\* Fault: addAsDefault without the early return.
addAsDefault_NoGuard(o) ==
    LET l == addAsDefaultLoop(Env, o, SortedInterfaces)
    IN  IF l.ret # 0 THEN Return(l.env, l.ret)
        ELSE [Return(l.env, 0) EXCEPT !.mIsDefault = TRUE]

addAsDefault(o) ==
    IF mIsDefault THEN Return(Env, 0)
    ELSE LET l == addAsDefaultLoop(Env, o, SortedInterfaces)
         IN  IF l.ret # 0 THEN Return(l.env, l.ret)
             ELSE [Return(l.env, 0) EXCEPT !.mIsDefault = TRUE]

\* Fault: a removeAsDefault loop that stops after the first interface.
removeAsDefaultLoop_FirstOnly(env, o, ifaces) ==
    IF ifaces = <<>> THEN [env |-> env, ret |-> 0]
    ELSE removeFromDefault(env, o, Head(ifaces), mPermission)

RECURSIVE removeAsDefaultLoop(_, _, _)
removeAsDefaultLoop(env, o, ifaces) ==
    IF ifaces = <<>> THEN [env |-> env, ret |-> 0]
    ELSE LET r == removeFromDefault(env, o, Head(ifaces), mPermission)
         IN  IF r.ret # 0 THEN r
             ELSE removeAsDefaultLoop(r.env, o, Tail(ifaces))

\* Fault: removeAsDefault clearing mIsDefault before its loop.
removeAsDefault_ClearFirst(o) ==
    IF ~mIsDefault THEN Return(Env, 0)
    ELSE LET l == removeAsDefaultLoop(Env, o, SortedInterfaces)
         IN  [Return(l.env, l.ret) EXCEPT !.mIsDefault = FALSE]

removeAsDefault(o) ==
    IF ~mIsDefault THEN Return(Env, 0)
    ELSE LET l == removeAsDefaultLoop(Env, o, SortedInterfaces)
         IN  IF l.ret # 0 THEN Return(l.env, l.ret)
             ELSE [Return(l.env, 0) EXCEPT !.mIsDefault = FALSE]

\* Fault: isValidSubPriority without the lower end of the range.
isValidSubPriority_NoLowerBound(priority) ==
    \/ priority <= SUB_PRIORITY_LOWEST
    \/ priority = SUB_PRIORITY_NO_DEFAULT

isValidSubPriority(priority) ==
    \/ (priority >= SUB_PRIORITY_HIGHEST /\ priority <= SUB_PRIORITY_LOWEST)
    \/ priority = SUB_PRIORITY_NO_DEFAULT

\* Fault: the loop of addUsers going on to the remaining interfaces after a
\* failure, and returning the first error at the end.
RECURSIVE addUsersLoop_Continue(_, _, _, _, _)
addUsersLoop_Continue(env, o, ifaces, uidRanges, subPriority) ==
    IF ifaces = <<>> THEN [env |-> env, ret |-> 0]
    ELSE LET a == addUsersToPhysicalNetwork(env, o, Head(ifaces), subPriority, uidRanges)
             rest == addUsersLoop_Continue(a.env, o, Tail(ifaces), uidRanges, subPriority)
         IN  [env |-> rest.env, ret |-> IF a.ret # 0 THEN a.ret ELSE rest.ret]

RECURSIVE addUsersLoop(_, _, _, _, _)
addUsersLoop(env, o, ifaces, uidRanges, subPriority) ==
    IF ifaces = <<>> THEN [env |-> env, ret |-> 0]
    ELSE LET a == addUsersToPhysicalNetwork(env, o, Head(ifaces), subPriority, uidRanges)
         IN  IF a.ret # 0 THEN a
             ELSE addUsersLoop(a.env, o, Tail(ifaces), uidRanges, subPriority)

addUsers(o, uidRanges, subPriority) ==
    IF ~isValidSubPriority(subPriority) \/ ~canAddUidRanges(uidRanges)
    THEN Return(Env, -EINVAL)
    ELSE LET l == addUsersLoop(Env, o, SortedInterfaces, uidRanges, subPriority)
         IN  IF l.ret # 0 THEN Return(l.env, l.ret)
             ELSE [Return(l.env, 0) EXCEPT
                      !.mUidRangeMap = addToUidRangeMap(uidRanges, subPriority)]

\* Fault: a removeUsers loop that never reaches the routing table.
removeUsersLoop_NoCalls(env, o, ifaces, uidRanges, subPriority) ==
    [env |-> env, ret |-> 0]

RECURSIVE removeUsersLoop(_, _, _, _, _)
removeUsersLoop(env, o, ifaces, uidRanges, subPriority) ==
    IF ifaces = <<>> THEN [env |-> env, ret |-> 0]
    ELSE LET r == removeUsersFromPhysicalNetwork(env, o, Head(ifaces), subPriority,
                                                 uidRanges)
         IN  IF r.ret # 0 THEN r
             ELSE removeUsersLoop(r.env, o, Tail(ifaces), uidRanges, subPriority)

removeUsers(o, uidRanges, subPriority) ==
    IF ~isValidSubPriority(subPriority) THEN Return(Env, -EINVAL)
    ELSE LET l == removeUsersLoop(Env, o, SortedInterfaces, uidRanges, subPriority)
         IN  IF l.ret # 0 THEN Return(l.env, l.ret)
             ELSE [Return(l.env, 0) EXCEPT
                      !.mUidRangeMap = removeFromUidRangeMap(uidRanges, subPriority)]

\* Fault: addInterface inserting the name before the fallthrough step.
addInterface_InsertEarly(o, interface) ==
    IF hasInterface(interface) THEN Return(Env, 0)
    ELSE LET a == addInterfaceToPhysicalNetwork(Env, o, interface, mPermission,
                                                mUidRangeMap)
         IN  IF a.ret # 0 THEN Return(a.env, a.ret)
             ELSE LET d == IF mIsDefault
                           THEN addToDefault(a.env, o, interface, mPermission)
                           ELSE [env |-> a.env, ret |-> 0]
                  IN  [Return(d.env, d.ret) EXCEPT
                          !.mInterfaces = mInterfaces \cup {interface}]

\* Fault: addInterface registering the interface without the UID ranges.
addInterface_NoUidRanges(o, interface) ==
    IF hasInterface(interface) THEN Return(Env, 0)
    ELSE LET a == addInterfaceToPhysicalNetwork(Env, o, interface, mPermission,
                                                EmptyUidRangeMap)
         IN  IF a.ret # 0 THEN Return(a.env, a.ret)
             ELSE LET d == IF mIsDefault
                           THEN addToDefault(a.env, o, interface, mPermission)
                           ELSE [env |-> a.env, ret |-> 0]
                  IN  IF d.ret # 0 THEN Return(d.env, d.ret)
                      ELSE [Return(d.env, 0) EXCEPT
                               !.mInterfaces = mInterfaces \cup {interface}]

\* Fault: addInterface going on when addInterfaceToPhysicalNetwork fails.
addInterface_IgnoreFailure(o, interface) ==
    IF hasInterface(interface) THEN Return(Env, 0)
    ELSE LET a == addInterfaceToPhysicalNetwork(Env, o, interface, mPermission,
                                                mUidRangeMap)
             d == IF mIsDefault
                  THEN addToDefault(a.env, o, interface, mPermission)
                  ELSE [env |-> a.env, ret |-> 0]
         IN  IF d.ret # 0 THEN Return(d.env, d.ret)
             ELSE [Return(d.env, 0) EXCEPT
                      !.mInterfaces = mInterfaces \cup {interface}]

addInterface(o, interface) ==
    IF hasInterface(interface) THEN Return(Env, 0)
    ELSE LET a == addInterfaceToPhysicalNetwork(Env, o, interface, mPermission,
                                                mUidRangeMap)
         IN  IF a.ret # 0 THEN Return(a.env, a.ret)
             ELSE LET d == IF mIsDefault
                           THEN addToDefault(a.env, o, interface, mPermission)
                           ELSE [env |-> a.env, ret |-> 0]
                  IN  IF d.ret # 0 THEN Return(d.env, d.ret)
                      ELSE [Return(d.env, 0) EXCEPT
                               !.mInterfaces = mInterfaces \cup {interface}]

\* Fault: removeInterface removing the interface from the physical network
\* before its fallthrough.
removeInterface_PhysicalFirst(o, interface) ==
    IF ~hasInterface(interface) THEN Return(Env, 0)
    ELSE LET r == removeInterfaceFromPhysicalNetwork(Env, o, interface, mPermission,
                                                     mUidRangeMap)
         IN  IF r.ret # 0 THEN Return(r.env, r.ret)
             ELSE LET d == IF mIsDefault
                           THEN removeFromDefault(r.env, o, interface, mPermission)
                           ELSE [env |-> r.env, ret |-> 0]
                  IN  IF d.ret # 0 THEN Return(d.env, d.ret)
                      ELSE [Return(d.env, 0) EXCEPT
                               !.mInterfaces = mInterfaces \ {interface}]

removeInterface(o, interface) ==
    IF ~hasInterface(interface) THEN Return(Env, 0)
    ELSE LET d == IF mIsDefault
                  THEN removeFromDefault(Env, o, interface, mPermission)
                  ELSE [env |-> Env, ret |-> 0]
         IN  IF d.ret # 0 THEN Return(d.env, d.ret)
             ELSE LET r == removeInterfaceFromPhysicalNetwork(d.env, o, interface,
                                                              mPermission, mUidRangeMap)
                  IN  IF r.ret # 0 THEN Return(r.env, r.ret)
                      ELSE [Return(r.env, 0) EXCEPT
                               !.mInterfaces = mInterfaces \ {interface}]

----------------------------------------------------------------------------
\* The driver: one serialized call at a time

\* The operations whose failures are remembered: a failure of one of them can
\* leave an attached interface without the registration or the permission
\* the fields promise.
DefaultBreakers == {"setPermission", "removeAsDefault", "removeInterface"}

NoInterface == ""

Op(name, permission, interface, uidRanges, subPriority) ==
    [name |-> name, permission |-> permission, interface |-> interface,
     uidRanges |-> uidRanges, subPriority |-> subPriority]

NoOp == Op("", NoPermission, NoInterface, NoRanges, 0)

\* The call undoes the operation before it: removeAsDefault after addAsDefault,
\* removeUsers after addUsers of the same ranges and sub-priority.  Such a
\* call's record keeps the successful operation it undoes and the state that
\* operation started from.
Undoes(call, before) ==
    /\ \/ call.name = "removeAsDefault" /\ before.name = "addAsDefault"
       \/ call.name = "removeUsers" /\ before.name = "addUsers"
    /\ call.uidRanges = before.uidRanges
    /\ call.subPriority = before.subPriority

NoPrev == [op |-> NoOp, calls |-> <<>>, mPermission |-> NoPermission,
           mIsDefault |-> FALSE, mInterfaces |-> {},
           mUidRangeMap |-> EmptyUidRangeMap,
           rcUsers |-> [i \in IfaceNames |-> {}]]

\* The state a call returning r leaves, and the record of the call.
Commit(call, result) ==
    \E r \in {result} :
    /\ mPermission' = r.mPermission
    /\ mIsDefault' = r.mIsDefault
    /\ mInterfaces' = r.mInterfaces
    /\ mUidRangeMap' = r.mUidRangeMap
    /\ rcPermission' = r.env.rcPermission
    /\ rcDefault' = r.env.rcDefault
    /\ fallthrough' = r.env.fallthrough
    /\ rcUsers' = r.env.rcUsers
    /\ calls' = r.env.calls
    /\ ret' = r.ret
    /\ op' = call
    /\ pre' = [mPermission |-> mPermission, mIsDefault |-> mIsDefault,
               mInterfaces |-> mInterfaces, mUidRangeMap |-> mUidRangeMap,
               failedAdd |-> IF op.name = "addInterface" /\ ret # 0
                             THEN op.interface ELSE NoInterface,
               lastSet |-> lastSet,
               rcDefault |-> rcDefault, fallthrough |-> fallthrough,
               rcUsers |-> rcUsers,
               prev |-> IF Undoes(call, op) /\ ret = 0
                        THEN [op |-> op, calls |-> calls,
                              mPermission |-> pre.mPermission,
                              mIsDefault |-> pre.mIsDefault,
                              mInterfaces |-> pre.mInterfaces,
                              mUidRangeMap |-> pre.mUidRangeMap,
                              rcUsers |-> pre.rcUsers]
                        ELSE NoPrev]
    /\ failedOps' = IF r.ret # 0 /\ call.name \in DefaultBreakers
                    THEN failedOps \cup {call.name} ELSE failedOps
    /\ allSucceeded' = (allSucceeded /\ r.ret = 0)
    /\ lastSet' = IF call.name = "setPermission" /\ r.ret = 0
                  THEN call.permission ELSE lastSet
    /\ nOps' = nOps + 1

Init ==
    /\ mPermission = PERMISSION_NONE
    /\ mIsDefault = FALSE
    /\ mInterfaces = {}
    /\ mUidRangeMap = EmptyUidRangeMap
    /\ rcPermission = [i \in IfaceNames |-> NoPermission]
    /\ rcDefault = {}
    /\ fallthrough = {}
    /\ rcUsers = [i \in IfaceNames |-> {}]
    /\ calls = <<>>
    /\ ret = 0
    /\ op = NoOp
    /\ pre = [mPermission |-> PERMISSION_NONE, mIsDefault |-> FALSE,
              mInterfaces |-> {}, mUidRangeMap |-> EmptyUidRangeMap,
              failedAdd |-> NoInterface, lastSet |-> NoPermission,
              rcDefault |-> {}, fallthrough |-> {},
              rcUsers |-> [i \in IfaceNames |-> {}], prev |-> NoPrev]
    /\ failedOps = {}
    /\ allSucceeded = TRUE
    /\ lastSet = NoPermission
    /\ nOps = 0

NumInterfaces == Cardinality(mInterfaces)

\* Each action draws its oracle from the outcomes the call can meet: the
\* checked calls it can make, and SockDiag and throw routes where it uses them.
CallSetPermission(permission) ==
    /\ nOps < MaxOps
    /\ \E o \in IF permission = mPermission \/ mInterfaces = {}
                THEN Oracles(0, {"ok"}, {FALSE})
                ELSE {x \in Oracles((IF mIsDefault THEN 5 ELSE 1) * NumInterfaces,
                                     IF permission = PERMISSION_NONE THEN {"ok"}
                                     ELSE SockDiagOutcomes,
                                     BOOLEAN) :
                        \* outcomes of calls the operation never reaches are left out
                        /\ x.failAt # 0 => x.sd[2] = "ok"
                        /\ x.failAt = 1 => ~x.routeFail} :
          Commit(Op("setPermission", permission, NoInterface, NoRanges, 0),
                 setPermission(o, permission))

CallAddAsDefault ==
    /\ nOps < MaxOps
    /\ \E o \in Oracles(IF mIsDefault THEN 0 ELSE 2 * NumInterfaces, {"ok"}, {FALSE}) :
          Commit(Op("addAsDefault", NoPermission, NoInterface, NoRanges, 0),
                 addAsDefault(o))

CallRemoveAsDefault ==
    /\ nOps < MaxOps
    /\ \E o \in Oracles(IF mIsDefault THEN 2 * NumInterfaces ELSE 0, {"ok"}, {FALSE}) :
          Commit(Op("removeAsDefault", NoPermission, NoInterface, NoRanges, 0),
                 removeAsDefault(o))

CallAddUsers(uidRanges, subPriority) ==
    /\ nOps < MaxOps
    /\ \E o \in Oracles(NumInterfaces, {"ok"}, {FALSE}) :
          Commit(Op("addUsers", NoPermission, NoInterface, uidRanges, subPriority),
                 addUsers(o, uidRanges, subPriority))

CallRemoveUsers(uidRanges, subPriority) ==
    /\ nOps < MaxOps
    /\ \E o \in Oracles(NumInterfaces, {"ok"}, {FALSE}) :
          Commit(Op("removeUsers", NoPermission, NoInterface, uidRanges, subPriority),
                 removeUsers(o, uidRanges, subPriority))

CallAddInterface(interface) ==
    /\ nOps < MaxOps
    /\ \E o \in Oracles(IF mIsDefault THEN 3 ELSE 1, {"ok"}, {FALSE}) :
          Commit(Op("addInterface", NoPermission, interface, NoRanges, 0),
                 addInterface(o, interface))

CallRemoveInterface(interface) ==
    /\ nOps < MaxOps
    /\ \E o \in Oracles(IF mIsDefault THEN 3 ELSE 1, {"ok"}, {FALSE}) :
          Commit(Op("removeInterface", NoPermission, interface, NoRanges, 0),
                 removeInterface(o, interface))

\* All seven operations (addUsers and removeUsers with one UID-range input).
Next ==
    \/ \E permission \in Permissions : CallSetPermission(permission)
    \/ CallAddAsDefault
    \/ CallRemoveAsDefault
    \/ \E uidRanges \in {AppUids}, subPriority \in SubPriorityInputs :
          CallAddUsers(uidRanges, subPriority)
    \/ \E uidRanges \in {AppUids}, subPriority \in SubPriorityInputs :
          CallRemoveUsers(uidRanges, subPriority)
    \/ \E interface \in IfaceNames : CallAddInterface(interface)
    \/ \E interface \in IfaceNames : CallRemoveInterface(interface)

Spec == Init /\ [][Next]_vars

\* The interface and UID-range operations alone, with every UID-range input.
NextUsers ==
    \/ \E uidRanges \in UidRangesInputs, subPriority \in SubPriorityInputs :
          CallAddUsers(uidRanges, subPriority)
    \/ \E uidRanges \in UidRangesInputs, subPriority \in SubPriorityInputs :
          CallRemoveUsers(uidRanges, subPriority)
    \/ \E interface \in IfaceNames : CallAddInterface(interface)
    \/ \E interface \in IfaceNames : CallRemoveInterface(interface)

SpecUsers == Init /\ [][NextUsers]_vars

\* The permission, default and interface operations alone.
NextNetwork ==
    \/ \E permission \in Permissions : CallSetPermission(permission)
    \/ CallAddAsDefault
    \/ CallRemoveAsDefault
    \/ \E interface \in IfaceNames : CallAddInterface(interface)
    \/ \E interface \in IfaceNames : CallRemoveInterface(interface)

SpecNetwork == Init /\ [][NextNetwork]_vars

----------------------------------------------------------------------------
\* Properties

FallthroughRegistered ==
    mIsDefault => \A i \in mInterfaces : <<i, mPermission>> \in fallthrough

UniformPermission ==
    /\ \A i \in mInterfaces : rcPermission[i] = mPermission
    /\ \A i, j \in mInterfaces : rcPermission[i] = rcPermission[j]

SetPermissionRan ==
    /\ op.name = "setPermission"
    /\ op.permission # pre.mPermission
    /\ pre.mInterfaces # {}

\* C3 as stated: when setPermission has work to do and SockDiag fails to open,
\* the call returns a failure and modifies no interface after the failed open.
C3_OpenFailureIsFatal ==
    SetPermissionRan =>
        \A k \in DOMAIN calls :
            (calls[k].fn = "SockDiag::open" /\ calls[k].res # 0) =>
                /\ ret # 0
                /\ \A j \in DOMAIN calls :
                      j > k => calls[j].fn # "modifyPhysicalNetworkPermission"

\* C4 as stated: setPermission stores the new permission only after both
\* force-close passes, every modify and every fallthrough re-registration
\* succeeded; a failed setPermission leaves the stored permission alone.
C4_PermissionStoredLast ==
    op.name = "setPermission" =>
        /\ ret # 0 => mPermission = pre.mPermission
        /\ mPermission # pre.mPermission =>
              \A k \in DOMAIN calls :
                  calls[k].fn \notin {"addRoute", "removeRoute"} => calls[k].res = 0

\* The last operation was one of the calls that have nothing to do.
NothingToDo ==
    \/ op.name = "setPermission" /\ op.permission = pre.mPermission
    \/ op.name = "addAsDefault" /\ pre.mIsDefault
    \/ op.name = "removeAsDefault" /\ ~pre.mIsDefault
    \/ op.name = "addInterface" /\ op.interface \in pre.mInterfaces
    \/ op.name = "removeInterface" /\ op.interface \notin pre.mInterfaces

\* C5: setPermission with the current permission, addAsDefault on a default
\* network, removeAsDefault on a non-default one, addInterface of an attached
\* name and removeInterface of an absent one return 0, call no collaborator and
\* leave the four fields as they were.
C5_Idempotent ==
    NothingToDo =>
        /\ ret = 0
        /\ calls = <<>>
        /\ mPermission = pre.mPermission
        /\ mIsDefault = pre.mIsDefault
        /\ mInterfaces = pre.mInterfaces
        /\ mUidRangeMap = pre.mUidRangeMap

C5_Witness ==
    /\ op.name = "addAsDefault" /\ pre.mIsDefault
    /\ mInterfaces # {}
    /\ DOMAIN mUidRangeMap # {}
    /\ calls = <<>> /\ ret = 0

\* C6: removeInterface of an attached interface of a default network calls
\* removeInterfaceFromDefaultNetwork and removeFallthrough for it before
\* removeInterfaceFromPhysicalNetwork, which is the last call it makes.
C6_FallthroughRemovedFirst ==
    (op.name = "removeInterface" /\ pre.mIsDefault /\ op.interface \in pre.mInterfaces) =>
        \A k \in DOMAIN calls :
            calls[k].fn = "removeInterfaceFromPhysicalNetwork" =>
                /\ k = Len(calls)
                /\ calls[k].iface = op.interface
                /\ \E a, b \in 1..(k - 1) :
                      /\ a < b
                      /\ calls[a].fn = "removeInterfaceFromDefaultNetwork"
                      /\ calls[a].iface = op.interface /\ calls[a].res = 0
                      /\ calls[b].fn = "removeFallthrough"
                      /\ calls[b].iface = op.interface /\ calls[b].res = 0

C6_Witness ==
    /\ op.name = "removeInterface" /\ pre.mIsDefault /\ op.interface \in pre.mInterfaces
    /\ ret = 0
    /\ Len(calls) = 3
    /\ calls[3].fn = "removeInterfaceFromPhysicalNetwork"
    /\ op.interface \notin mInterfaces

\* The operations that loop over the interfaces.
LoopOps == {"setPermission", "addAsDefault", "removeAsDefault", "addUsers", "removeUsers"}

SockDiagCalls == {"SockDiag::open", "SockDiag::destroySocketsLackingPermission"}

ThrowRouteCalls == {"addRoute", "removeRoute"}

\* C7 as stated: in a per-interface loop, the first collaborator call that
\* fails is the last call of the operation, and its code is what the
\* operation returns.
C7_AsStated ==
    op.name \in LoopOps =>
        \A k \in DOMAIN calls :
            (calls[k].fn \notin SockDiagCalls /\ calls[k].res # 0) =>
                k = Len(calls) /\ ret = calls[k].res

\* C7: in a per-interface loop, the first collaborator call that fails, other
\* than the addRoute and removeRoute calls of the route-cache invalidation
\* (whose results are ignored), is the last call of the operation (no call
\* follows for that or any remaining interface, and none undoes an earlier
\* one), and its code is what the operation returns.
C7_FailFast ==
    op.name \in LoopOps =>
        \A k \in DOMAIN calls :
            (calls[k].fn \notin SockDiagCalls \cup ThrowRouteCalls /\ calls[k].res # 0) =>
                k = Len(calls) /\ ret = calls[k].res

C7_Witness ==
    /\ op.name = "setPermission"
    /\ ret # 0
    /\ Len(calls) > 1
    /\ calls[Len(calls)].fn = "modifyPhysicalNetworkPermission"
    /\ calls[Len(calls)].res = ret
    /\ \E k \in 1..(Len(calls) - 1) :
          /\ calls[k].fn = "modifyPhysicalNetworkPermission"
          /\ calls[k].res = 0
          /\ calls[k].iface # calls[Len(calls)].iface

\* C8: addUsers and removeUsers with a sub-priority outside
\* [SUB_PRIORITY_HIGHEST, SUB_PRIORITY_LOWEST] and other than
\* SUB_PRIORITY_NO_DEFAULT return -EINVAL, call no collaborator and leave the
\* UID-range map as it was.
C8_InvalidSubPriority ==
    (/\ op.name \in {"addUsers", "removeUsers"}
     /\ (op.subPriority < SUB_PRIORITY_HIGHEST \/ op.subPriority > SUB_PRIORITY_LOWEST)
     /\ op.subPriority # SUB_PRIORITY_NO_DEFAULT) =>
        /\ ret = -EINVAL
        /\ calls = <<>>
        /\ mUidRangeMap = pre.mUidRangeMap

C8_Witness ==
    /\ op.name = "removeUsers"
    /\ op.subPriority < SUB_PRIORITY_HIGHEST
    /\ Cardinality(mInterfaces) = 2
    /\ DOMAIN mUidRangeMap # {}
    /\ ret = -EINVAL

\* C9: addInterface inserts the name only after addInterfaceToPhysicalNetwork
\* and, on a default network, addInterfaceToDefaultNetwork and addFallthrough
\* succeeded; after a failed addInterface the name is not attached, and a
\* removeInterface of it right after returns 0 and calls no collaborator.
C9_InsertAfterSuccess ==
    /\ (op.name = "addInterface" /\ ret # 0) =>
          op.interface \notin mInterfaces /\ mInterfaces = pre.mInterfaces
    /\ (op.name = "addInterface" /\ op.interface \in mInterfaces \ pre.mInterfaces) =>
          /\ ret = 0
          /\ \A k \in DOMAIN calls : calls[k].res = 0
          /\ \E k \in DOMAIN calls : calls[k].fn = "addInterfaceToPhysicalNetwork"
          /\ pre.mIsDefault => \E k \in DOMAIN calls : calls[k].fn = "addFallthrough"
    /\ (op.name = "removeInterface" /\ pre.failedAdd = op.interface) =>
          ret = 0 /\ calls = <<>> /\ op.interface \notin mInterfaces

C9_Witness ==
    /\ op.name = "removeInterface"
    /\ pre.failedAdd = op.interface
    /\ pre.mIsDefault
    /\ rcPermission[op.interface] # NoPermission
    /\ ret = 0 /\ calls = <<>>

\* Calls that take the network's permission (for
\* modifyPhysicalNetworkPermission, perm is the old permission).
PermissionCalls ==
    {"addInterfaceToPhysicalNetwork", "removeInterfaceFromPhysicalNetwork",
     "addInterfaceToDefaultNetwork", "removeInterfaceFromDefaultNetwork",
     "addFallthrough", "removeFallthrough", "modifyPhysicalNetworkPermission"}

\* C10 as stated: after a successful setPermission(p) the stored permission
\* is p, and every call that takes a permission made by a later operation
\* (a later setPermission that succeeds left aside, but for the old
\* permission it passes) is passed p.
C10_AsStated ==
    /\ lastSet # NoPermission => mPermission = lastSet
    /\ pre.lastSet # NoPermission =>
          \A k \in DOMAIN calls :
              (/\ calls[k].fn \in PermissionCalls
               /\ (op.name = "setPermission" /\ ret = 0) =>
                      calls[k].fn = "modifyPhysicalNetworkPermission") =>
                  calls[k].perm = pre.lastSet

\* C10: after a successful setPermission(p) the stored permission is p, and
\* every later call that takes a permission is passed p until the next
\* successful setPermission, except that a later setPermission(q) on a default
\* network passes its target q to addInterfaceToDefaultNetwork and
\* addFallthrough (and q as the new permission of
\* modifyPhysicalNetworkPermission).
C10_PermissionPassed ==
    /\ lastSet # NoPermission => mPermission = lastSet
    /\ pre.lastSet # NoPermission =>
          \A k \in DOMAIN calls :
              calls[k].fn \in PermissionCalls =>
                  IF /\ op.name = "setPermission"
                     /\ calls[k].fn \in {"addInterfaceToDefaultNetwork", "addFallthrough"}
                  THEN calls[k].perm = op.permission
                  ELSE /\ calls[k].perm = pre.lastSet
                       /\ calls[k].fn = "modifyPhysicalNetworkPermission" =>
                             calls[k].perm2 = op.permission

C10_Witness ==
    /\ pre.lastSet # NoPermission
    /\ op.name = "setPermission"
    /\ \E k \in DOMAIN calls :
          /\ calls[k].fn = "addFallthrough"
          /\ calls[k].perm = op.permission
          /\ calls[k].perm # pre.lastSet
    /\ \E k \in DOMAIN calls :
          /\ calls[k].fn = "removeFallthrough"
          /\ calls[k].perm = pre.lastSet

\* The calls of a log that went to the delegate, as <<function, interface,
\* permission>>.
DelegateCalls(cs) ==
    LET ds == SelectSeq(cs, LAMBDA c : c.fn \in {"addFallthrough", "removeFallthrough"})
    IN  [k \in DOMAIN ds |-> <<ds[k].fn, ds[k].iface, ds[k].perm>>]

AllSucceed(cs) == \A k \in DOMAIN cs : cs[k].res = 0

\* One call of fn per interface of ifs, in order, at the permission.
OnePerInterface(fn, ifs, permission) ==
    [k \in DOMAIN ifs |-> <<fn, ifs[k], permission>>]

\* The last call was a removeAsDefault right after an addAsDefault that started
\* from a network that was not the default, and no collaborator call of
\* either failed.
AddThenRemoveAsDefault ==
    /\ op.name = "removeAsDefault"
    /\ pre.prev.op.name = "addAsDefault"
    /\ ~pre.prev.mIsDefault
    /\ AllSucceed(pre.prev.calls)
    /\ AllSucceed(calls)

\* C11: addAsDefault from a non-default network immediately followed by
\* removeAsDefault, every collaborator call succeeding, sends the delegate one
\* addFallthrough per attached interface and then one removeFallthrough per
\* attached interface, all at the current permission, and ends with isDefault
\* false and with permission, interfaces and uidRangeMap as they were before
\* the addAsDefault.
C11_AddThenRemoveAsDefault ==
    AddThenRemoveAsDefault =>
        /\ DelegateCalls(pre.prev.calls \o calls) =
               OnePerInterface("addFallthrough", SortedInterfaces, mPermission)
               \o OnePerInterface("removeFallthrough", SortedInterfaces, mPermission)
        /\ ret = 0
        /\ ~mIsDefault
        /\ mPermission = pre.prev.mPermission
        /\ mInterfaces = pre.prev.mInterfaces
        /\ mUidRangeMap = pre.prev.mUidRangeMap

C11_Witness ==
    /\ AddThenRemoveAsDefault
    /\ Cardinality(mInterfaces) = 2
    /\ Len(DelegateCalls(pre.prev.calls \o calls)) = 4

\* The last call was a removeAsDefault that returned success and cleared
\* mIsDefault.
RemovedAsDefault ==
    op.name = "removeAsDefault" /\ ret = 0 /\ pre.mIsDefault /\ ~mIsDefault

\* Before the last call, an attached interface was registered as default or
\* for fallthrough under a permission other than the stored one.
StaleBefore ==
    \E i \in pre.mInterfaces, p \in Permissions \ {pre.mPermission} :
        <<i, p>> \in pre.rcDefault \cup pre.fallthrough

\* C12 as stated: after a removeAsDefault that returns success and clears
\* isDefault, no attached interface remains registered with the routing
\* table's default network or the delegate's fallthrough under any permission,
\* whatever state the call started from.
C12_AsStated ==
    RemovedAsDefault =>
        \A i \in mInterfaces, p \in Permissions :
            <<i, p>> \notin rcDefault \cup fallthrough

\* C12 (amended): after such a removeAsDefault no attached interface remains
\* registered at the stored permission, whatever state the call started from;
\* none remains registered under any permission when none was registered
\* under another permission before the call, and a registration under another
\* permission exists only after some earlier call has failed.
C12_RemovedAtStoredPermission ==
    RemovedAsDefault =>
        /\ \A i \in mInterfaces : <<i, mPermission>> \notin rcDefault \cup fallthrough
        /\ ~StaleBefore =>
               \A i \in mInterfaces, p \in Permissions :
                   <<i, p>> \notin rcDefault \cup fallthrough
        /\ StaleBefore => ~allSucceeded

\* A removeAsDefault that clears every registration of the attached
\* interfaces although an earlier call failed.
C12_Witness ==
    /\ RemovedAsDefault
    /\ ~StaleBefore
    /\ ~allSucceeded
    /\ mInterfaces # {}
    /\ \A i \in mInterfaces : <<i, mPermission>> \in pre.fallthrough

\* The last call was a successful removeUsers right after a successful
\* addUsers of the same ranges and sub-priority.
AddThenRemoveUsers ==
    op.name = "removeUsers" /\ ret = 0 /\ pre.prev.op.name = "addUsers"

RECURSIVE FallthroughAfter(_)
FallthroughAfter(k) ==
    IF k = 0 THEN pre.fallthrough
    ELSE LET c == calls[k]
             f == FallthroughAfter(k - 1)
         IN  IF c.res # 0 THEN f
             ELSE IF c.fn = "addFallthrough" THEN f \cup {<<c.iface, c.perm>>}
             ELSE IF c.fn = "removeFallthrough" THEN f \ {<<c.iface, c.perm>>}
             ELSE f

\* The last call was a setPermission with work to do on a default network.
SetPermissionOnDefault == SetPermissionRan /\ pre.mIsDefault

\* Before the last call every attached interface was registered for
\* fallthrough under some permission.
RegisteredBefore ==
    \A i \in pre.mInterfaces : \E p \in Permissions : <<i, p>> \in pre.fallthrough

\* C14: in a setPermission on a default network with interfaces, every
\* removeInterfaceFromDefaultNetwork and removeFallthrough call is at the old
\* permission and comes after the successful addInterfaceToDefaultNetwork and
\* addFallthrough calls of the same interface at the new permission; so after
\* every call of the operation every attached interface that was registered
\* for fallthrough before is registered for fallthrough under some permission.
C14_AddBeforeRemove ==
    SetPermissionOnDefault =>
        /\ \A k \in DOMAIN calls :
              calls[k].fn \in {"removeInterfaceFromDefaultNetwork", "removeFallthrough"} =>
                  /\ calls[k].perm = pre.mPermission
                  /\ \A fn \in {"addInterfaceToDefaultNetwork", "addFallthrough"} :
                        \E j \in 1..(k - 1) :
                            /\ calls[j].fn = fn
                            /\ calls[j].iface = calls[k].iface
                            /\ calls[j].perm = op.permission
                            /\ calls[j].res = 0
        /\ FallthroughAfter(Len(calls)) = fallthrough
        /\ RegisteredBefore =>
              \A k \in 0..Len(calls) : \A i \in pre.mInterfaces :
                  \E p \in Permissions : <<i, p>> \in FallthroughAfter(k)

\* A setPermission that moves the registrations of two interfaces.
C14_Witness ==
    /\ SetPermissionOnDefault
    /\ RegisteredBefore
    /\ ret = 0
    /\ Cardinality(pre.mInterfaces) = 2
    /\ \A i \in pre.mInterfaces :
          /\ <<i, pre.mPermission>> \in pre.fallthrough
          /\ <<i, pre.mPermission>> \notin fallthrough
          /\ <<i, mPermission>> \in fallthrough

\* Where the last operation opened the socket-diagnostics facility.
Opens == {k \in DOMAIN calls : calls[k].fn = "SockDiag::open"}

\* The last operation made two force-close passes for the permission it was
\* given: the first before every other call, the second after every other
\* call; a pass opens SockDiag and, when that succeeds, calls its
\* destroySocketsLackingPermission.
TwoPasses ==
    /\ Cardinality(Opens) = 2
    /\ 1 \in Opens
    /\ \E k \in Opens \ {1} :
          \A j \in DOMAIN calls : calls[j].fn \notin SockDiagCalls => 1 < j /\ j < k
    /\ \A k \in DOMAIN calls :
          /\ calls[k].fn \in SockDiagCalls => calls[k].perm = op.permission
          /\ calls[k].fn = "SockDiag::destroySocketsLackingPermission"
                => k - 1 \in Opens /\ calls[k - 1].res = 0
          /\ (k \in Opens /\ calls[k].res = 0)
                => /\ k + 1 \in DOMAIN calls
                   /\ calls[k + 1].fn = "SockDiag::destroySocketsLackingPermission"

\* The last call was a setPermission with work to do that ran to completion.
SetPermissionCompleted == SetPermissionRan /\ ret = 0

\* C15 as stated: every setPermission to a different permission on a network
\* with interfaces that runs to completion makes two force-close passes for
\* the new permission, one before the first modifyPhysicalNetworkPermission
\* and one after the last per-interface update.
C15_AsStated == SetPermissionCompleted => TwoPasses

\* C15 (amended): such a setPermission to a permission other than
\* PERMISSION_NONE makes the two force-close passes and stores the new
\* permission; to PERMISSION_NONE it makes none and never opens SockDiag.
C15_TwoPassesUnlessNone ==
    SetPermissionCompleted =>
        /\ mPermission = op.permission
        /\ op.permission # PERMISSION_NONE => TwoPasses
        /\ op.permission = PERMISSION_NONE =>
              \A k \in DOMAIN calls : calls[k].fn \notin SockDiagCalls

\* A completed setPermission on a default network with both passes closing
\* sockets.
C15_Witness ==
    /\ SetPermissionCompleted
    /\ pre.mIsDefault
    /\ TwoPasses
    /\ \A k \in Opens : calls[k].res = 0 /\ calls[k + 1].res = 0
    /\ \E k \in DOMAIN calls : calls[k].fn = "removeFallthrough"

\* The last call was a successful setPermission from PERMISSION_NONE to
\* PERMISSION_SYSTEM on a non-default network with interfaces.
NoneToSystem ==
    /\ op.name = "setPermission"
    /\ ret = 0
    /\ pre.mPermission = PERMISSION_NONE
    /\ op.permission = PERMISSION_SYSTEM
    /\ ~pre.mIsDefault
    /\ pre.mInterfaces # {}

\* C16 as stated: a successful setPermission from NONE to SYSTEM on a
\* non-default network with interfaces opens SockDiag exactly once.
C16_AsStated == NoneToSystem => Cardinality(Opens) = 1

\* C16 (amended): such a setPermission opens SockDiag exactly twice, once in
\* each force-close pass, as its first call and after its last
\* routing-table call.
C16_OpenedTwice ==
    NoneToSystem =>
        /\ Cardinality(Opens) = 2
        /\ 1 \in Opens
        /\ \E k \in Opens :
              \A j \in DOMAIN calls : calls[j].fn \notin SockDiagCalls => j < k

\* The scenario of the specification: interfaces eth0 and wlan0, NONE to
\* SYSTEM, not default, every call succeeding.
C16_Witness ==
    /\ NoneToSystem
    /\ mInterfaces = IfaceNames
    /\ mPermission = PERMISSION_SYSTEM
    /\ AllSucceed(calls)

\* The routing-table and delegate calls of the last operation, as
\* <<function, interface, first argument, second argument>>.
RoutingCalls ==
    LET cs == SelectSeq(calls, LAMBDA c : c.fn \notin SockDiagCalls)
    IN  [k \in DOMAIN cs |-> <<cs[k].fn, cs[k].iface, cs[k].perm, cs[k].perm2>>]

\* What setPermission asks of the routing table for one interface on a
\* non-default network: the permission change, then a throw route added and
\* removed for the IPv4 and for the IPv6 default prefix.
ModifyAndInvalidate(interface, oldPermission, newPermission) ==
    << <<"modifyPhysicalNetworkPermission", interface, oldPermission, newPermission>>,
       <<"addRoute", interface, "0.0.0.0/0", NoPermission>>,
       <<"removeRoute", interface, "0.0.0.0/0", NoPermission>>,
       <<"addRoute", interface, "::/0", NoPermission>>,
       <<"removeRoute", interface, "::/0", NoPermission>> >>

RECURSIVE ModifyAndInvalidateAll(_, _, _)
ModifyAndInvalidateAll(ifs, oldPermission, newPermission) ==
    IF ifs = <<>> THEN <<>>
    ELSE ModifyAndInvalidate(Head(ifs), oldPermission, newPermission)
         \o ModifyAndInvalidateAll(Tail(ifs), oldPermission, newPermission)

\* The last call was a setPermission with work to do on a non-default network.
SetPermissionOffDefault == SetPermissionRan /\ ~pre.mIsDefault

C18_RulesFollowUidRangeMap ==
    allSucceeded =>
        /\ \A i \in mInterfaces : rcUsers[i] = Rules(mUidRangeMap)
        /\ op.name \in {"addInterface", "removeInterface"} =>
              /\ mUidRangeMap = pre.mUidRangeMap
              /\ \A k \in DOMAIN calls :
                    calls[k].fn \in {"addInterfaceToPhysicalNetwork",
                                     "removeInterfaceFromPhysicalNetwork"}
                        => calls[k].ranges = Rules(pre.mUidRangeMap)

\* An interface attached to a network that already has UID ranges, every call
\* so far having succeeded.
C18_Witness ==
    /\ allSucceeded
    /\ op.name = "addInterface"
    /\ op.interface \in mInterfaces \ pre.mInterfaces
    /\ pre.mUidRangeMap # EmptyUidRangeMap
    /\ rcUsers[op.interface] # {}

\* The fields the last operation changed.
ChangedFields ==
    (IF mPermission # pre.mPermission THEN {"mPermission"} ELSE {})
    \cup (IF mIsDefault # pre.mIsDefault THEN {"mIsDefault"} ELSE {})
    \cup (IF mInterfaces # pre.mInterfaces THEN {"mInterfaces"} ELSE {})
    \cup (IF mUidRangeMap # pre.mUidRangeMap THEN {"mUidRangeMap"} ELSE {})

\* The one field an operation writes.
TargetField(name) ==
    CASE name = "setPermission" -> {"mPermission"}
      [] name \in {"addAsDefault", "removeAsDefault"} -> {"mIsDefault"}
      [] name \in {"addInterface", "removeInterface"} -> {"mInterfaces"}
      [] name \in {"addUsers", "removeUsers"} -> {"mUidRangeMap"}
      [] OTHER -> {}

\* C19: an operation that returns a failure leaves mPermission, mIsDefault,
\* mInterfaces and mUidRangeMap as they were; one that returns success changes
\* at most the field it targets, and only after every collaborator call whose
\* result it reads has succeeded.
C19_Frame ==
    /\ ret # 0 => ChangedFields = {}
    /\ ChangedFields \subseteq TargetField(op.name)
    /\ ChangedFields # {} =>
          \A k \in DOMAIN calls :
              calls[k].fn \notin BestEffortCalls => calls[k].res = 0

\* A failed operation that had already changed a collaborator, and left the
\* fields alone.
C19_Witness ==
    /\ ret # 0
    /\ ChangedFields = {}
    /\ \E k \in DOMAIN calls :
          calls[k].fn \notin BestEffortCalls /\ calls[k].res = 0
    /\ \/ rcPermission # [i \in IfaceNames |->
                            IF i \in mInterfaces THEN mPermission ELSE NoPermission]
       \/ rcUsers # pre.rcUsers
       \/ fallthrough # pre.fallthrough

\* The routing table holds the interface: addInterfaceToPhysicalNetwork has
\* succeeded for it and removeInterfaceFromPhysicalNetwork has not since.
HeldByRoutingTable(i) == rcPermission[i] # NoPermission

\* C20: in every state, after failed operations too, the routing table holds
\* every interface of mInterfaces; an addInterface never calls
\* removeInterfaceFromPhysicalNetwork, so one that fails after
\* addInterfaceToPhysicalNetwork leaves the routing table holding an interface
\* that mInterfaces lacks.
C20_InterfacesHeld ==
    /\ \A i \in mInterfaces : HeldByRoutingTable(i)
    /\ op.name = "addInterface" =>
          /\ \A k \in DOMAIN calls :
                calls[k].fn # "removeInterfaceFromPhysicalNetwork"
          /\ (ret # 0 /\ Len(calls) > 1) =>
                HeldByRoutingTable(op.interface) /\ op.interface \notin mInterfaces

\* An addInterface on a default network that failed at addFallthrough: the
\* routing table holds both interfaces, mInterfaces only the other one.
C20_Witness ==
    /\ op.name = "addInterface"
    /\ ret # 0
    /\ calls # <<>>
    /\ calls[Len(calls)].fn = "addFallthrough"
    /\ mInterfaces # {}
    /\ op.interface \notin mInterfaces
    /\ \A i \in IfaceNames : HeldByRoutingTable(i)

====
